---- MODULE Spec2Model ----
(***************************************************************************)
(* Model of the remote device process of the multi-process QEMU link:      *)
(*   - the wait primitive (notify_proxy / wait_for_remote) of the link     *)
(*     layer, with its 64-bit arithmetic kept at full width;               *)
(*   - the dispatcher process_msg of remote-main.c with its handlers, the  *)
(*     device registry remote_pci_devs[] / nr_devices and the creation     *)
(*     latch create_done;                                                  *)
(*   - the channel as a stream socket: threads sending frames with         *)
(*     mpqemu_msg_send under the send-lock, and the event loop receiving   *)
(*     them with mpqemu_msg_recv and handling them one at a time.          *)
(***************************************************************************)
EXTENDS Integers, Sequences, FiniteSets, TLC

(***************************************************************************)
(* 64-bit unsigned integers.  TLC integers are 32 bits wide, so a uint64_t *)
(* is a tuple of four 16-bit limbs, least significant limb first.          *)
(***************************************************************************)
LimbBase == 2 ^ 16

LimbMax == LimbBase - 1

U64Zero == <<0, 0, 0, 0>>

UINT64_MAX == <<LimbMax, LimbMax, LimbMax, LimbMax>>

\* a small value as a uint64_t
U64(n) == <<n % LimbBase, (n \div LimbBase) % LimbBase, 0, 0>>

\* v + 1 modulo 2^64
U64Inc(v) ==
    IF v[1] < LimbMax THEN <<v[1] + 1, v[2], v[3], v[4]>>
    ELSE IF v[2] < LimbMax THEN <<0, v[2] + 1, v[3], v[4]>>
    ELSE IF v[3] < LimbMax THEN <<0, 0, v[3] + 1, v[4]>>
    ELSE IF v[4] < LimbMax THEN <<0, 0, 0, v[4] + 1>>
    ELSE U64Zero

\* v - 1 modulo 2^64
U64Dec(v) ==
    IF v[1] > 0 THEN <<v[1] - 1, v[2], v[3], v[4]>>
    ELSE IF v[2] > 0 THEN <<LimbMax, v[2] - 1, v[3], v[4]>>
    ELSE IF v[3] > 0 THEN <<LimbMax, LimbMax, v[3] - 1, v[4]>>
    ELSE IF v[4] > 0 THEN <<LimbMax, LimbMax, LimbMax, v[4] - 1>>
    ELSE UINT64_MAX

\* a + b as a pair <<sum modulo 2^64, carry out>>
U64AddCarry(a, b) ==
    LET s1 == a[1] + b[1]
        s2 == a[2] + b[2] + (s1 \div LimbBase)
        s3 == a[3] + b[3] + (s2 \div LimbBase)
        s4 == a[4] + b[4] + (s3 \div LimbBase)
    IN  << <<s1 % LimbBase, s2 % LimbBase, s3 % LimbBase, s4 % LimbBase>>,
           s4 \div LimbBase >>

(***************************************************************************)
(* The wait-FD is an eventfd: a 64-bit counter.  write() adds the written  *)
(* value; the value 2^64-1 is rejected (EINVAL) and a sum above 2^64-2     *)
(* cannot be stored (EAGAIN / blocking), in both cases the counter is left *)
(* as it was.  read() returns the counter and resets it to zero; poll()    *)
(* reports the FD readable when the counter is not zero.                   *)
(***************************************************************************)
EventfdWrite(counter, val) ==
    LET r == U64AddCarry(counter, val)
    IN  IF val = UINT64_MAX THEN counter
        ELSE IF r[2] > 0 \/ r[1] = UINT64_MAX THEN counter
        ELSE r[1]

\* notify_proxy without the offset by one
NotifyValue_NoOffset(val) == val

\* the value notify_proxy hands to write(): offset by one, 2^64-1 verbatim
NotifyValue(val) == IF val = UINT64_MAX THEN val ELSE U64Inc(val)

\* notify_proxy(efd, val) on an eventfd whose counter is `counter`
notify_proxy(counter, val) == EventfdWrite(counter, NotifyValue(val))

\* the correction wait_for_remote applies to the value it read
WaitValue(val) == IF val = UINT64_MAX THEN val ELSE U64Dec(val)

\* wait_for_remote(efd): <<return value, counter afterwards>>.
\* poll_err and read_err are failures of poll() and read() injected by the
\* environment; otherwise poll() returns 0 (timeout) on a zero counter.
wait_for_remote(counter, poll_err, read_err) ==
    IF poll_err THEN <<UINT64_MAX, counter>>
    ELSE IF counter = U64Zero THEN <<UINT64_MAX, counter>>
    ELSE IF read_err THEN <<UINT64_MAX, counter>>
    ELSE <<WaitValue(counter), U64Zero>>

(***************************************************************************)
(* Bounds of the wait-primitive specification: the limbs the 64-bit input  *)
(* values are built from.                                                  *)
(***************************************************************************)
WaitEdge == 2

WaitLimbs == (0 .. WaitEdge) \cup ((LimbMax - WaitEdge) .. LimbMax)

WaitInputs == {<<a, b, c, d>> : a \in WaitLimbs, b \in {0, LimbMax},
                                c \in {0, LimbMax}, d \in WaitLimbs}

(***************************************************************************)
(* Protocol constants.                                                     *)
(***************************************************************************)
MAX_REMOTE_DEVICES == 256

REMOTE_MAX_FDS == 8

\* sizeof(struct conf_data_msg): uint32_t addr, uint32_t val, int l
ConfDataSize == 12

\* sizeof(msg->data1), the inline union (its largest member is the
\* system-memory descriptor: three arrays of REMOTE_MAX_FDS 64-bit words)
Data1Size == 3 * REMOTE_MAX_FDS * 8

\* the command enumeration mpqemu_cmd_t, in ordinal order; MAX is the sentinel
CmdNames == <<"INIT", "GET_PCI_INFO", "RET_PCI_INFO", "PCI_CONFIG_WRITE",
              "PCI_CONFIG_READ", "BAR_WRITE", "BAR_READ", "MMIO_RETURN",
              "SYNC_SYSMEM", "SET_IRQFD", "DEV_OPTS", "DEVICE_ADD",
              "DEVICE_DEL", "DEVICE_RESET", "REMOTE_PING", "START_MIG_OUT",
              "START_MIG_IN", "RUNSTATE_SET">>

Cmds == {CmdNames[i] : i \in 1 .. Len(CmdNames)}

MAX == Len(CmdNames)

\* a command tag outside the enumeration (0xdead)
UnknownCmd == "0xdead"

CmdOrdinal(c) ==
    IF c \in Cmds THEN (CHOOSE i \in 1 .. Len(CmdNames) : CmdNames[i] = c) - 1
    ELSE MAX + 1

\* the values the handlers pass to notify_proxy
REMOTE_OK == U64Zero

\* (uint32_t)REMOTE_FAIL, REMOTE_FAIL being -1
REMOTE_FAIL == <<LimbMax, LimbMax, 0, 0>>

\* (uint32_t)getpid() of the remote process
RemotePid == U64(4242)

\* qemu_ftell(f) after the savevm stream was written
SavevmBytes == U64(512)

(***************************************************************************)
(* Bounds of the dispatcher model.                                         *)
(***************************************************************************)
\* device ids 0 .. MaxId are used by the proxy
MaxId == 1

\* number of frames the proxy sends
MaxFrames == 4

\* names of the devices ("id" key of the JSON option blobs)
DevNames == {"d0", "d1"}

DevKeys == DevNames

NoKey == "none"

\* JSON documents carried by DEV_OPTS, DEVICE_ADD and DEVICE_DEL:
\* text that does not parse, a JSON value that is not an object, and
\* objects with an optional "id" and an optional "driver" key
JsonObject(i, d) == [kind |-> "object", id |-> i, driver |-> d]

JsonDocs ==
    {[kind |-> "malformed", id |-> NoKey, driver |-> NoKey],
     [kind |-> "array", id |-> NoKey, driver |-> NoKey],
     JsonObject(NoKey, NoKey), JsonObject("d0", NoKey),
     JsonObject("d1", NoKey), JsonObject("d0", "pci"),
     JsonObject("d1", "pci"), JsonObject("d0", "sysbus"),
     JsonObject("d0", "bogus")}

\* qdict_size(): number of keys of a JSON object
qdict_size(j) == (IF j.id # NoKey THEN 1 ELSE 0)
                 + (IF j.driver # NoKey THEN 1 ELSE 0)

\* PCI configuration space: one register per device
ConfAddrs == {0}

ConfVals == {5}

\* the register's value after realize / reset identifies the device
CfgInit(k) == CASE k = "d0" -> 16 [] k = "d1" -> 17 [] OTHER -> 18

\* values read through a pointer that does not point to a device
GarbageVals == {99}

\* BAR accesses: one accessible 8-byte cell per address space, at BarOk;
\* any access at BarBad is a MEMTX error
BarOk == "0x1000"

BarBad == "0xdead0000"

BarAddrs == {BarOk, BarBad}

\* the address of an all-zero inline payload
BarZero == "0x0"

BarSizes == {1, 2, 4, 8, 9}

\* 0x1122334455667788 and 0x99aabbccddeeff00
CellInit == <<26504, 17510, 8756, 4386>>

BarWriteVal == <<65280, 56814, 48076, 39338>>

ZeroBar == [memory |-> FALSE, addr |-> BarZero, val |-> U64Zero, size |-> 0]

ZeroConf == [addr |-> 0, val |-> 0, l |-> 0]

NoJson == [kind |-> "none", id |-> NoKey, driver |-> NoKey]

RunStates == {"paused"}

(***************************************************************************)
(* Frames the proxy puts on the control channel.  A frame is its header    *)
(* (cmd, id, size, bytestream), the number of FDs attached to it, and the  *)
(* content the sender put into the payload for the frame's command.        *)
(***************************************************************************)
Sizes == {0, ConfDataSize, Data1Size}

FdCounts == {0, 1, 2}

BytestreamCmds == {"PCI_CONFIG_WRITE", "PCI_CONFIG_READ", "DEV_OPTS",
                   "DEVICE_ADD", "DEVICE_DEL"}

\* the header the per-command contract asks for
ContractBytestream(c) == c \in BytestreamCmds

ContractSize(c) ==
    IF c \in BytestreamCmds THEN ConfDataSize
    ELSE IF c \in {"BAR_WRITE", "BAR_READ", "SYNC_SYSMEM", "SET_IRQFD",
                   "RUNSTATE_SET"} THEN Data1Size
    ELSE 0

ContractFds(c) ==
    IF c \in {"PCI_CONFIG_READ", "SYNC_SYSMEM", "DEV_OPTS", "DEVICE_ADD",
              "DEVICE_DEL", "REMOTE_PING", "START_MIG_IN", "RUNSTATE_SET"}
    THEN 1
    ELSE IF c \in {"SET_IRQFD", "START_MIG_OUT"} THEN 2
    ELSE 0

Header(c, i, sz, bs, n) ==
    [cmd |-> c, id |-> i, size |-> sz, bytestream |-> bs, num_fds |-> n]

\* commands whose handler looks at msg->id
IdCmds == {"GET_PCI_INFO", "PCI_CONFIG_WRITE", "PCI_CONFIG_READ",
           "SET_IRQFD", "DEV_OPTS"}

\* headers that follow the contract, for every id the command can use
ContractHeaders(c) ==
    {Header(c, i, ContractSize(c), ContractBytestream(c), ContractFds(c)) :
        i \in IF c \in IdCmds THEN 0 .. MaxId ELSE {0}}

\* headers that break the contract in one field
DeviantHeaders(c) ==
    {Header(c, 0, sz, ContractBytestream(c), ContractFds(c)) : sz \in Sizes}
    \cup {Header(c, 0, ContractSize(c), ~ContractBytestream(c),
                 ContractFds(c))}
    \cup {Header(c, 0, ContractSize(c), ContractBytestream(c), n) :
             n \in FdCounts}
    \cup {Header(c, MAX_REMOTE_DEVICES + 1, ContractSize(c),
                 ContractBytestream(c), ContractFds(c))}

\* the payload contents sent with command c
Bodies(c) ==
    CASE c = "PCI_CONFIG_WRITE" ->
           {[conf |-> [addr |-> a, val |-> v, l |-> 4], bar |-> ZeroBar,
             json |-> NoJson, runstate |-> "running"] :
                a \in ConfAddrs, v \in ConfVals}
      [] c = "PCI_CONFIG_READ" ->
           {[conf |-> [addr |-> a, val |-> 0, l |-> 4], bar |-> ZeroBar,
             json |-> NoJson, runstate |-> "running"] : a \in ConfAddrs}
      [] c = "BAR_WRITE" ->
           {[conf |-> ZeroConf,
             bar |-> [memory |-> m, addr |-> a, val |-> BarWriteVal,
                      size |-> sz],
             json |-> NoJson, runstate |-> "running"] :
                m \in BOOLEAN, a \in BarAddrs, sz \in {1, 8}}
      [] c = "BAR_READ" ->
           {[conf |-> ZeroConf,
             bar |-> [memory |-> m, addr |-> a, val |-> U64Zero, size |-> sz],
             json |-> NoJson, runstate |-> "running"] :
                m \in BOOLEAN, a \in BarAddrs, sz \in BarSizes}
      [] c \in {"DEV_OPTS", "DEVICE_ADD", "DEVICE_DEL"} ->
           {[conf |-> ZeroConf, bar |-> ZeroBar, json |-> j,
             runstate |-> "running"] : j \in JsonDocs}
      [] c = "RUNSTATE_SET" ->
           {[conf |-> ZeroConf, bar |-> ZeroBar, json |-> NoJson,
             runstate |-> r] : r \in RunStates}
      [] OTHER ->
           {[conf |-> ZeroConf, bar |-> ZeroBar, json |-> NoJson,
             runstate |-> "running"]}

\* one payload content per command, sent with the deviant headers
TypicalBody(c) ==
    CASE c \in {"DEV_OPTS", "DEVICE_ADD", "DEVICE_DEL"} ->
           [conf |-> ZeroConf, bar |-> ZeroBar,
            json |-> [kind |-> "object", id |-> "d0", driver |-> "pci"],
            runstate |-> "running"]
      [] c \in {"BAR_WRITE", "BAR_READ"} ->
           [conf |-> ZeroConf,
            bar |-> [memory |-> TRUE, addr |-> BarOk,
                     val |-> IF c = "BAR_WRITE" THEN BarWriteVal ELSE U64Zero,
                     size |-> 1],
            json |-> NoJson, runstate |-> "running"]
      [] OTHER -> CHOOSE b \in Bodies(c) : TRUE

MkFrame(h, b) ==
    [cmd |-> h.cmd, id |-> h.id, size |-> h.size,
     bytestream |-> h.bytestream, num_fds |-> h.num_fds,
     conf |-> b.conf, bar |-> b.bar, json |-> b.json,
     runstate |-> b.runstate]

Frames(c) ==
    {MkFrame(h, b) : h \in ContractHeaders(c), b \in Bodies(c)}
    \cup {MkFrame(h, TypicalBody(c)) : h \in DeviantHeaders(c)}

NoMsg == MkFrame(Header("none", 0, 0, FALSE, 0), TypicalBody("none"))

(***************************************************************************)
(* mpqemu_msg_recv: the MPQemuMsg the dispatcher works on.  The message is *)
(* allocated zeroed (g_malloc0); the header is read into it, the FDs of    *)
(* the SCM_RIGHTS control message are copied into fds[], a bytestream      *)
(* payload is read into a fresh buffer data2 and an inline payload into    *)
(* the union data1.                                                        *)
(***************************************************************************)
\* descriptor number of the i-th FD received with a frame
RecvFd(i) == 10 + i

\* msg->fds[]: slots beyond num_fds keep the zero of g_malloc0
RecvFds(n) == [i \in 1 .. REMOTE_MAX_FDS |-> IF i <= n THEN RecvFd(i) ELSE 0]

\* data1.bar_access (hwaddr addr; uint64_t val; unsigned size; bool memory)
\* after `size` bytes were read into the zeroed union
RecvBar(m) ==
    IF m.bytestream \/ m.size = 0 THEN ZeroBar
    ELSE IF m.size < Data1Size
         THEN [memory |-> FALSE, addr |-> m.bar.addr,
               val |-> <<m.bar.val[1], m.bar.val[2], 0, 0>>, size |-> 0]
    ELSE m.bar

\* data1.runstate.state; the zero of the enumeration is "debug"
RecvRunstate(m) ==
    IF m.bytestream \/ m.size = 0 THEN "debug" ELSE m.runstate

mpqemu_msg_recv_msg(m) ==
    [cmd |-> m.cmd, id |-> m.id, size |-> m.size,
     bytestream |-> m.bytestream, num_fds |-> m.num_fds,
     fds |-> RecvFds(m.num_fds),
     data2 |-> (m.bytestream /\ m.size > 0),
     conf |-> IF m.bytestream THEN m.conf ELSE ZeroConf,
     json |-> IF m.bytestream THEN m.json ELSE NoJson,
     bar |-> RecvBar(m), runstate |-> RecvRunstate(m)]

\* MPQEMU_MSG_HDR_SIZE, the bytes of the fixed header
MsgHdrSize == 40

\* the bytes of a header cut short after its cmd and bytestream words
ShortHdrBytes == 8

\* what the socket delivers to one mpqemu_msg_recv call: the whole frame
\* ("ok"); recvmsg fails ("recvmsg_err"), returns 0 at the end of the
\* stream ("hdr_eof") or returns only the first bytes of the header
\* ("hdr_short"); the read of the payload fails ("read_err") or returns 0
\* bytes at the end of the stream ("read_eof")
RecvOutcomes == {"ok", "recvmsg_err", "hdr_eof", "hdr_short", "read_err",
                 "read_eof"}

\* the bytes of a payload that was not read: the zeroed union / buffer
\* (the empty string does not parse as JSON)
ZeroBody ==
    [conf |-> ZeroConf, bar |-> ZeroBar,
     json |-> [kind |-> "malformed", id |-> NoKey, driver |-> NoKey],
     runstate |-> "debug"]

\* the part of frame m that reaches the zeroed MPQemuMsg under outcome io
Delivered(m, io) ==
    CASE io \in {"recvmsg_err", "hdr_eof"} ->
           MkFrame(Header(CmdNames[1], 0, 0, FALSE, 0), ZeroBody)
      [] io = "hdr_short" ->
           MkFrame(Header(m.cmd, 0, 0, m.bytestream, m.num_fds), ZeroBody)
      [] io \in {"read_err", "read_eof"} ->
           MkFrame(Header(m.cmd, m.id, m.size, m.bytestream, m.num_fds),
                   ZeroBody)
      [] OTHER -> m

\* the return value of mpqemu_msg_recv on what was delivered of frame m:
\* negative on a failed recvmsg, on more than REMOTE_MAX_FDS FDs, on a
\* bytestream frame of size 0 and on a failed read of the payload;
\* otherwise the return value of the last recvmsg / read
mpqemu_msg_recv_rc(m, io) ==
    LET d == Delivered(m, io)
    IN  IF io = "recvmsg_err" THEN -1
        ELSE IF d.num_fds > REMOTE_MAX_FDS THEN -34
        ELSE IF d.bytestream /\ d.size = 0 THEN -22
        ELSE IF d.size > 0
             THEN (CASE io = "read_err" -> -1
                     [] io = "read_eof" -> 0
                     [] OTHER -> d.size)
        ELSE (CASE io = "hdr_eof" -> 0
                [] io = "hdr_short" -> ShortHdrBytes
                [] OTHER -> MsgHdrSize)

\* the frames, by command (UnknownCmd included), each with the message
\* mpqemu_msg_recv makes of it
FramesOf ==
    [c \in Cmds \cup {UnknownCmd} |->
        {<<f, mpqemu_msg_recv_msg(f)>> : f \in Frames(c)}]

\* the frame of command c that is delivered with transport failures
ReadFailFrame(c) ==
    MkFrame(Header(c, 0, ContractSize(c), ContractBytestream(c),
                   ContractFds(c)), TypicalBody(c))

(***************************************************************************)
(* mpqemu_msg_valid: the frame validity check of the link layer.           *)
(***************************************************************************)
\* (the FDs of a received frame were installed by the kernel and are open,
\* so the fcntl() probe of each of them succeeds)
mpqemu_msg_valid(msg) ==
    IF CmdOrdinal(msg.cmd) >= MAX THEN FALSE
    ELSE IF msg.bytestream /\ ~msg.data2 THEN FALSE
    ELSE IF ~msg.bytestream /\ msg.data2 THEN FALSE
    ELSE IF msg.num_fds >= REMOTE_MAX_FDS THEN FALSE
    ELSE CASE msg.cmd = "SYNC_SYSMEM" ->
                ~(msg.num_fds = 0 \/ msg.bytestream)
                /\ msg.size = Data1Size
           [] msg.cmd \in {"PCI_CONFIG_WRITE", "PCI_CONFIG_READ"} ->
                msg.size = ConfDataSize
           [] msg.cmd \in {"BAR_WRITE", "BAR_READ", "SET_IRQFD"} ->
                msg.size = Data1Size
           [] OTHER -> TRUE

(***************************************************************************)
(* Address spaces: address_space_rw on the one cell of an address space.   *)
(***************************************************************************)
\* the low n bytes of v, the other bytes zero
LowBytes(v, n) ==
    [i \in 1 .. 4 |-> IF 8 * n >= 16 * i THEN v[i]
                      ELSE IF 8 * n <= 16 * (i - 1) THEN 0
                      ELSE v[i] % 256]

\* old with its low n bytes replaced by those of new
MergeBytes(old, new, n) ==
    [i \in 1 .. 4 |-> IF 8 * n >= 16 * i THEN new[i]
                      ELSE IF 8 * n <= 16 * (i - 1) THEN old[i]
                      ELSE (old[i] - (old[i] % 256)) + (new[i] % 256)]

Min(a, b) == IF a < b THEN a ELSE b

\* MemTxResult of an access of `size` bytes at addr
MemtxOk(addr, size) == size = 0 \/ addr = BarOk

\* cell content after a write of the low `size` bytes of val
address_space_write(cell, addr, val, size) ==
    IF MemtxOk(addr, size) THEN MergeBytes(cell, val, Min(size, 8)) ELSE cell

\* the zero-initialized buffer after a read of `size` bytes
address_space_read(cell, addr, size) ==
    IF MemtxOk(addr, size) THEN LowBytes(cell, Min(size, 8)) ELSE U64Zero

VARIABLES
    wait_v,        \* the value the remote passes to notify_proxy
    efd,           \* the counter of the wait-FD
    notify_count,  \* number of notify_proxy calls made on the wait-FD
    wait_phase,    \* "idle", "notified", "done"
    wait_io_err,   \* poll() or read() failed inside wait_for_remote
    wait_ret       \* the value wait_for_remote returned

waitvars == <<wait_v, efd, notify_count, wait_phase, wait_io_err, wait_ret>>

VARIABLES
    pc,             \* "running", "torn_down" (link finalized), "aborted"
    link,           \* the MPQemuLinkState: loop and the two channels
    create_done,    \* the machine-creation-done latch
    notifiers_run,  \* calls of qemu_run_machine_init_done_notifiers
    nr_devices,     \* length of remote_pci_devs[]
    remote_pci_devs,\* the registry: slot i+1 is remote_pci_devs[i]
    qdev,           \* the devices of the machine, by name
    as_mem,         \* address_space_memory (its cell)
    as_io,          \* address_space_io (its cell)
    nframes,        \* frames taken from the control channel so far
    msg,            \* the MPQemuMsg of the last process_msg call
    out             \* what the last process_msg call did

mainvars == <<pc, link, create_done, notifiers_run, nr_devices,
              remote_pci_devs, qdev, as_mem, as_io, nframes, msg, out>>

VARIABLES
    send_lock,  \* chan->send_lock of the channel: "free" or its holder
    spc,        \* where each sending thread is inside mpqemu_msg_send
    sframe,     \* the frame each sending thread is sending
    nsends,     \* mpqemu_msg_send calls started so far
    stream,     \* every unit written to the socket so far, in order
    rpos,       \* units of the stream the receiver has read
    rpc,        \* the receiving loop: "poll", "payload", "handle", "desync"
    rbuf,       \* the frame mpqemu_msg_recv is assembling
    rcvd,       \* the messages mpqemu_msg_recv has returned, in order
    rlog,       \* the receiving loop's events, in order
    sfail       \* the sends whose sendmsg of the header failed

linkvars == <<send_lock, spc, sframe, nsends, stream, rpos, rpc, rbuf, rcvd,
              rlog, sfail>>

vars == <<waitvars, mainvars, linkvars>>

NoDevice == [present |-> FALSE, pci |-> FALSE, cfg |-> 0, irq |-> FALSE]

\* a registry slot holds the name of the device it points to, "garbage"
\* (memory g_realloc left uninitialized) or "dangling" (the device it
\* pointed to was unplugged and freed)
Garbage == "garbage"

Dangling == "dangling"

\* a registry slot that is empty (a NULL pointer)
NullDev == "null"

\* what a process_msg call did: the return value of mpqemu_msg_recv, the
\* handler it entered, the notify_proxy writes, the reply frames sent, the
\* FDs closed, whether an error was reported, the device created, the
\* indexes at which remote_pci_devs[] was read, the FDs handed over to
\* a device or to the memory subsystem, what the socket delivered, and
\* the trace of the call: its lock operations and the operations the
\* locks are about, in program order
EmptyOut == [rc |-> 0, handler |-> "none", notifs |-> <<>>, sent |-> <<>>,
             closed |-> {}, err |-> FALSE, created |-> NoKey,
             lookups |-> {}, installed |-> {}, io |-> "ok", trace |-> <<>>]

LinkUp == [loop_quit |-> FALSE,
           com |-> [sock_open |-> TRUE, locks |-> "initialized"],
           mmio |-> [sock_open |-> TRUE, locks |-> "initialized"]]

\* the state main() leaves behind when it enters the loop
MainInit ==
    /\ pc = "running"
    /\ link = LinkUp
    /\ create_done = FALSE
    /\ notifiers_run = 0
    /\ nr_devices = 0
    /\ remote_pci_devs = <<>>
    /\ qdev = [k \in DevKeys |-> NoDevice]
    /\ as_mem = CellInit
    /\ as_io = CellInit
    /\ nframes = 0
    /\ msg = mpqemu_msg_recv_msg(NoMsg)
    /\ out = EmptyOut

WaitIdle ==
    /\ efd = U64Zero
    /\ notify_count = 0
    /\ wait_phase = "idle"
    /\ wait_io_err = FALSE
    /\ wait_ret = U64Zero

WaitUnused ==
    /\ wait_v = U64Zero
    /\ WaitIdle

\* the threads that send on the channel
Threads == {"t1", "t2"}

\* no send in progress, nothing written to the socket, the loop polling
LinkIdle ==
    /\ send_lock = "free"
    /\ spc = [t \in Threads |-> "idle"]
    /\ sframe = [t \in Threads |-> [frame |-> NoMsg, src |-> 0]]
    /\ nsends = 0
    /\ stream = <<>>
    /\ rpos = 0
    /\ rpc = "poll"
    /\ rbuf = [frame |-> NoMsg, files |-> <<>>, k |-> 0]
    /\ rcvd = <<>>
    /\ rlog = <<>>
    /\ sfail = {}

Init == MainInit /\ WaitUnused /\ LinkIdle

InitWait ==
    /\ wait_v \in WaitInputs
    /\ WaitIdle
    /\ MainInit
    /\ LinkIdle

\* the remote notifies the wait-FD once
Notify ==
    /\ wait_phase = "idle"
    /\ efd' = notify_proxy(efd, wait_v)
    /\ notify_count' = notify_count + 1
    /\ wait_phase' = "notified"
    /\ UNCHANGED <<wait_v, wait_io_err, wait_ret, mainvars, linkvars>>

\* the proxy waits on the wait-FD (after the notification, or with no
\* notifier at all, in which case poll() times out)
Wait ==
    /\ wait_phase \in {"idle", "notified"}
    /\ \E poll_err \in BOOLEAN, read_err \in BOOLEAN :
         LET r == wait_for_remote(efd, poll_err, read_err)
         IN  /\ wait_ret' = r[1]
             /\ efd' = r[2]
             /\ wait_io_err' = (poll_err \/ (efd # U64Zero /\ read_err))
    /\ wait_phase' = "done"
    /\ UNCHANGED <<wait_v, notify_count, mainvars, linkvars>>

NextWait == Notify \/ Wait

SpecWait == InitWait /\ [][NextWait]_vars

\* the wait-FD received exactly one notify_proxy(wait_v) and the proxy's
\* wait_for_remote on it has returned without a poll()/read() failure
WaitRoundTripDone ==
    /\ wait_phase = "done"
    /\ notify_count = 1
    /\ ~wait_io_err

\* C1 (as stated): for every v in [0, 2^64-2] a wait_for_remote on a
\* wait-FD that received exactly one notify_proxy(v) returns v, and for
\* v = 2^64-1 it returns 2^64-1.
C1_WaitRoundTrip == WaitRoundTripDone => wait_ret = wait_v

\* C1 (amended): the round trip returns v for every v in [0, 2^64-3]; for
\* v = 2^64-2 and for v = 2^64-1 it returns 2^64-1, the value reserved for
\* failure (v + 1 = 2^64-1 cannot be told apart from the verbatim 2^64-1).
C1_WaitRoundTripAmended ==
    WaitRoundTripDone =>
        wait_ret = (IF wait_v \in {UINT64_MAX, U64Dec(UINT64_MAX)}
                    THEN UINT64_MAX ELSE wait_v)

\* a round trip of the largest value that survives it, 2^64-3
C1_Witness ==
    /\ WaitRoundTripDone
    /\ wait_v = U64Dec(U64Dec(UINT64_MAX))
    /\ wait_ret = wait_v

(***************************************************************************)
(* The dispatcher.  A handler maps the state at its entry to the set of    *)
(* states it can leave behind; a state is a record of the globals of       *)
(* remote-main.c and of the machine (the state kept inside the external    *)
(* primitives remote_sysmem_reconfig and remote_runstate_set is not        *)
(* modelled), of what the call has done so far (out) and of how it         *)
(* ends: "ok" (returns), "fatal" (goto finalize_loop) or "abort" (the      *)
(* process dies on a failed assertion or an invalid pointer).              *)
(***************************************************************************)
Cur ==
    [create_done |-> create_done, notifiers_run |-> notifiers_run,
     nr_devices |-> nr_devices, devs |-> remote_pci_devs, qdev |-> qdev,
     as_mem |-> as_mem, as_io |-> as_io, out |-> EmptyOut, exit |-> "ok"]

Entered(s, h) == [s EXCEPT !.out.handler = h]

\* the call goes through the operations ops
Traced(s, ops) == [s EXCEPT !.out.trace = @ \o ops]

\* notify_proxy(fd, val) called by a handler: the write() on fd
Notified(s, fd, val) ==
    [s EXCEPT !.out.notifs = Append(@, [fd |-> fd, val |-> NotifyValue(val)]),
              !.out.trace = Append(@, "notify")]

\* mpqemu_msg_send(&ret, chan) of a reply frame: header and payload are
\* written under the send-lock of the channel
Sent(s, chan, cmd, val) ==
    [s EXCEPT !.out.sent = Append(@, [chan |-> chan, cmd |-> cmd,
                                      val |-> val]),
              !.out.trace = @ \o <<"send_lock", "sendmsg", "write",
                                   "send_unlock">>]

\* PUT_REMOTE_WAIT(fd), close(fd)
Closed(s, fd) == [s EXCEPT !.out.closed = @ \cup {fd}]

\* the handler evaluates remote_pci_devs[id]
LookedUp(s, id) == [s EXCEPT !.out.lookups = @ \cup {id}]

\* the FDs were handed over to a device or to the memory subsystem
Installed(s, fds) == [s EXCEPT !.out.installed = @ \cup fds]

\* what the socket delivered to the mpqemu_msg_recv of this call
Received(s, io) == [s EXCEPT !.out.io = io]

\* error_setg / error_report_err
Reported(s) == [s EXCEPT !.out.err = TRUE]

Aborted(s) == [s EXCEPT !.exit = "abort"]

Fatal(s) == [s EXCEPT !.exit = "fatal"]

\* remote_pci_devs[id] points to a live PCI device
SlotValid(s, id) == id < s.nr_devices /\ s.devs[id + 1] \in DevKeys

\* remote_pci_devs is still NULL: reading remote_pci_devs[id] faults.
\* (Otherwise a slot that is not valid is read past the end of the array,
\* uninitialized or dangling, and what the handler does with the pointer
\* is undefined: the process dies or carries on.)
RegistryNull(s) == s.nr_devices = 0

\* the ways a handler can end after it used an invalid remote_pci_devs[id],
\* carry_on being the states it can be in if the process survives
InvalidSlot(s, carry_on) ==
    IF RegistryNull(s) THEN {Aborted(s)} ELSE {Aborted(s)} \cup carry_on

\* pci_default_write_config / pci_default_read_config of l bytes of the
\* register (l = 0 transfers nothing)
ConfigWritten(cfg, conf) == IF conf.l = 0 THEN cfg ELSE conf.val

ConfigRead(cfg, conf) == IF conf.l = 0 THEN 0 ELSE cfg

\* the configuration-space access of a handler, made with the I/O-thread
\* lock held
ConfigAccess(s) ==
    Traced(s, <<"iothread_lock", "pci_config", "iothread_unlock">>)

process_config_write(s0, m) ==
    LET e == Entered(s0, "process_config_write")
        s == LookedUp(e, m.id)
    IN  IF m.id > e.nr_devices THEN {e}
        ELSE IF ~m.data2 THEN {Aborted(e)}
        ELSE IF SlotValid(s, m.id)
             THEN {ConfigAccess([s EXCEPT !.qdev[s.devs[m.id + 1]].cfg =
                                              ConfigWritten(@, m.conf)])}
        ELSE InvalidSlot(s, {ConfigAccess(s)})

\* the notification is made before the I/O-thread lock is released
ConfigReadNotify_UnderLock(s, wait, val) ==
    Closed(Traced(Notified(Traced(s, <<"iothread_lock", "pci_config">>),
                           wait, val), <<"iothread_unlock">>), wait)

\* process_config_read from the lock on: the read under the I/O-thread
\* lock, then notify_proxy and PUT_REMOTE_WAIT
ConfigReadNotify(s, wait, val) ==
    Closed(Notified(ConfigAccess(s), wait, val), wait)

process_config_read(s0, m) ==
    LET e == Entered(s0, "process_config_read")
        s == LookedUp(e, m.id)
        wait == m.fds[1]
    IN  IF m.id > e.nr_devices THEN {e}
        ELSE IF ~m.data2 THEN {Aborted(e)}
        ELSE IF SlotValid(s, m.id)
             THEN {ConfigReadNotify(s, wait,
                      U64(ConfigRead(s.qdev[s.devs[m.id + 1]].cfg, m.conf)))}
        ELSE InvalidSlot(s, {ConfigReadNotify(s, wait, U64(g)) :
                                g \in GarbageVals})

process_bar_write(s0, m) ==
    LET s == Entered(s0, "process_bar_write")
        bar == m.bar
    IN  IF ~MemtxOk(bar.addr, bar.size) THEN {Reported(s)}
        ELSE IF bar.memory
             THEN {[s EXCEPT !.as_mem = address_space_write(@, bar.addr,
                                                   bar.val, bar.size)]}
        ELSE {[s EXCEPT !.as_io = address_space_write(@, bar.addr,
                                                   bar.val, bar.size)]}

\* the switch on bar_access->size: the widths a read is masked to
BarReadWidths == {4, 2, 1}

process_bar_read(s0, m) ==
    LET s == Entered(s0, "process_bar_read")
        bar == m.bar
        cell == IF bar.memory THEN s.as_mem ELSE s.as_io
        val == address_space_read(cell, bar.addr, bar.size)
    IN  IF ~(bar.size <= 8) THEN {Aborted(s)}
        ELSE IF ~MemtxOk(bar.addr, bar.size)
             THEN {Sent(Reported(s), "mmio", "MMIO_RETURN", UINT64_MAX)}
        ELSE IF bar.size \in BarReadWidths
             THEN {Sent(s, "mmio", "MMIO_RETURN", LowBytes(val, bar.size))}
        ELSE {Reported(s)}

\* the vendor/device/class/subsystem ids of a device
PciInfo(k) == U64(CfgInit(k))

process_get_pci_info_msg(s0, m) ==
    LET s == LookedUp(Entered(s0, "process_get_pci_info_msg"), m.id)
    IN  IF SlotValid(s, m.id)
        THEN {Sent(s, "com", "RET_PCI_INFO", PciInfo(s.devs[m.id + 1]))}
        ELSE InvalidSlot(s, {Sent(s, "com", "RET_PCI_INFO", U64(g)) :
                                g \in GarbageVals})

\* qdev_device_add(opts): the name of the device it creates, NoKey when it
\* fails (no or unknown driver, duplicate id; the JSON documents of the
\* model name every device they create)
qdev_device_add(s, j) ==
    IF j.driver \notin {"pci", "sysbus"} THEN NoKey
    ELSE IF j.id = NoKey THEN NoKey
    ELSE IF s.qdev[j.id].present THEN NoKey
    ELSE j.id

\* the machine after qdev_device_add created device k from j
DeviceAdded(s, j, k) ==
    [s EXCEPT !.qdev[k] = [present |-> TRUE, pci |-> (j.driver = "pci"),
                           cfg |-> CfgInit(k), irq |-> FALSE],
              !.out.created = k]

process_device_add_msg(s0, m) ==
    LET s == Entered(s0, "process_device_add_msg")
        wait == m.fds[1]
        k == qdev_device_add(s, m.json)
        done(t) == Closed(Notified(t, wait, U64(1)), wait)
    IN  IF ~m.data2 THEN {Aborted(s)}
        ELSE IF m.json.kind = "malformed" THEN {done(Reported(s))}
        ELSE IF m.json.kind # "object" THEN {Aborted(s)}
        ELSE IF k = NoKey THEN {done(Reported(s))}
        ELSE {done(DeviceAdded(s, m.json, k))}

\* qdev_unplug(dev): the device is gone; registry slots that pointed to it
\* keep the stale pointer
Unplugged(s, k) ==
    [s EXCEPT !.qdev[k] = NoDevice,
              !.devs = [i \in 1 .. Len(@) |->
                           IF @[i] = k THEN Dangling ELSE @[i]]]

process_device_del_msg(s0, m) ==
    LET s == Entered(s0, "process_device_del_msg")
        wait == m.fds[1]
        done(t) == Closed(Notified(t, wait, U64(1)), wait)
    IN  IF ~m.data2 THEN {Aborted(s)}
        ELSE IF m.json.kind = "malformed" THEN {done(Reported(s))}
        ELSE IF m.json.kind # "object" THEN {Aborted(s)}
        ELSE IF m.json.id = NoKey THEN {Aborted(s)}
        ELSE IF ~s.qdev[m.json.id].present THEN {done(Reported(s))}
        ELSE {done(Unplugged(s, m.json.id))}

\* qemu_devices_reset(): every device goes back to its reset state
process_device_reset_msg(s0, m) ==
    LET s == Entered(s0, "process_device_reset_msg")
    IN  {[s EXCEPT !.qdev = [k \in DevKeys |->
                               IF @[k].present
                               THEN [@[k] EXCEPT !.cfg = CfgInit(k)]
                               ELSE @[k]]]}

\* the registry after remote_pci_devs[id] = PCI_DEVICE(dev), grown by
\* g_realloc (which leaves the new slots uninitialized) when id is not
\* below nr_devices
RegistryAdd(s, id, k) ==
    LET n == IF s.nr_devices <= id THEN id + 1 ELSE s.nr_devices
    IN  [s EXCEPT !.nr_devices = n,
                  !.devs = [i \in 1 .. n |->
                               IF i = id + 1 THEN k
                               ELSE IF i <= Len(@) THEN @[i]
                               ELSE Garbage]]

\* setup_device: the set of <<state, return code>> it can end in
setup_device(s0, m) ==
    LET s == Entered(s0, "setup_device")
        wait == m.fds[1]
        k == qdev_device_add(s, m.json)
        failed(t) == <<Notified(Reported(t), wait, REMOTE_FAIL), -22>>
        added == DeviceAdded(s, m.json, k)
    IN  IF m.num_fds # 1 THEN {<<Reported(s), -22>>}
        ELSE IF ~m.data2 THEN {<<Reported(s), -22>>}
        ELSE IF m.id > MAX_REMOTE_DEVICES THEN {<<Reported(s), -22>>}
        ELSE IF m.json.kind = "malformed" THEN {failed(s)}
        ELSE IF m.json.kind # "object" THEN {failed(s)}
        ELSE IF ~(qdict_size(m.json) > 1) THEN {<<Aborted(s), -22>>}
        ELSE IF k = NoKey THEN {failed(s)}
        ELSE IF added.qdev[k].pci
             THEN {<<Notified(RegistryAdd(added, m.id, k), wait, REMOTE_OK),
                     0>>}
        ELSE {<<Notified(added, wait, REMOTE_OK), 0>>}

\* chan_ok: qio_channel_new_fd accepted msg->fds[0]
process_start_mig_out(s0, m, chan_ok) ==
    LET s == Entered(s0, "process_start_mig_out")
        wait == m.fds[2]
    IN  IF ~chan_ok THEN {Reported(s)}
        ELSE {Closed(Closed(Notified(s, wait, SavevmBytes), wait), m.fds[1])}

\* load_ok: qemu_remote_loadvm returned 0
process_start_mig_in(s0, m, chan_ok, load_ok) ==
    LET s == Entered(s0, "process_start_mig_in")
    IN  IF ~chan_ok THEN {<<Reported(s), -22>>}
        ELSE {<<Closed(s, m.fds[1]), IF load_ok THEN 0 ELSE -1>>}

\* process_set_irqfd_msg(remote_pci_devs[id], msg): the irqfd and the
\* resample fd are installed on the device
process_set_irqfd_msg(s0, m) ==
    LET s == LookedUp(Entered(s0, "process_set_irqfd_msg"), m.id)
    IN  IF SlotValid(s, m.id)
        THEN {Installed([s EXCEPT !.qdev[s.devs[m.id + 1]].irq = TRUE],
                        {m.fds[i] : i \in 1 .. m.num_fds})}
        ELSE InvalidSlot(s, {s})

\* the tail of the SET_IRQFD case without the test of the latch
MachineCreationDone_Unguarded(s) ==
    [s EXCEPT !.notifiers_run = @ + 1, !.create_done = TRUE]

\* the tail of the SET_IRQFD case: the creation latch
MachineCreationDone(s) ==
    IF ~s.create_done
    THEN Traced([s EXCEPT !.notifiers_run = @ + 1, !.create_done = TRUE],
                <<"iothread_lock", "init_done_notifiers", "iothread_unlock">>)
    ELSE s

\* the four handlers run whether or not the machine was created
CreatedGuard_Always(s) == TRUE

\* the guard of the four handlers that need a created machine
CreatedGuard(s) == s.create_done

\* a command without a case is skipped like INIT
UnknownCommand_Ignored(s) == s

\* the default case of the switch: "Unknown command", goto finalize_loop
UnknownCommand(s) == Fatal(Reported(s))

\* the switch of process_msg; env holds the outcomes of the external
\* primitives the handlers call
Dispatch(s, m, env) ==
    CASE m.cmd = "INIT" -> {s}
      [] m.cmd = "GET_PCI_INFO" -> process_get_pci_info_msg(s, m)
      [] m.cmd = "PCI_CONFIG_WRITE" ->
           IF CreatedGuard(s) THEN process_config_write(s, m) ELSE {s}
      [] m.cmd = "PCI_CONFIG_READ" ->
           IF CreatedGuard(s) THEN process_config_read(s, m) ELSE {s}
      [] m.cmd = "BAR_WRITE" ->
           IF CreatedGuard(s) THEN process_bar_write(s, m) ELSE {s}
      [] m.cmd = "BAR_READ" ->
           IF CreatedGuard(s) THEN process_bar_read(s, m) ELSE {s}
      [] m.cmd = "SYNC_SYSMEM" ->
           LET t == Entered(s, "remote_sysmem_reconfig")
           IN  IF env.sysmem_ok
               THEN {Installed(t, {m.fds[i] : i \in 1 .. m.num_fds})}
               ELSE {Fatal(Reported(t))}
      [] m.cmd = "SET_IRQFD" ->
           IF m.id > s.nr_devices THEN {Fatal(Reported(s))}
           ELSE {IF t.exit = "ok" THEN MachineCreationDone(t) ELSE t :
                    t \in process_set_irqfd_msg(s, m)}
      [] m.cmd = "DEV_OPTS" ->
           {IF r[1].exit = "ok" /\ r[2] # 0 THEN Fatal(r[1]) ELSE r[1] :
               r \in setup_device(s, m)}
      [] m.cmd = "DEVICE_ADD" -> process_device_add_msg(s, m)
      [] m.cmd = "DEVICE_DEL" -> process_device_del_msg(s, m)
      [] m.cmd = "REMOTE_PING" ->
           {Notified(Entered(s, "remote_ping"), m.fds[1], RemotePid)}
      [] m.cmd = "DEVICE_RESET" ->
           {IF m.num_fds = 1 THEN Notified(t, m.fds[1], U64Zero) ELSE t :
               t \in process_device_reset_msg(s, m)}
      [] m.cmd = "START_MIG_OUT" -> process_start_mig_out(s, m, env.chan_ok)
      [] m.cmd = "START_MIG_IN" ->
           {IF r[2] # 0 THEN Fatal(Reported(r[1])) ELSE r[1] :
               r \in process_start_mig_in(s, m, env.chan_ok, env.load_ok)}
      [] m.cmd = "RUNSTATE_SET" ->
           {Notified(Entered(s, "remote_runstate_set"), m.fds[1], U64Zero)}
      [] OTHER -> {UnknownCommand(s)}

\* the operations of mpqemu_msg_recv on message m when the socket
\* delivers io: the recv-lock is taken by WITH_QEMU_LOCK_GUARD, which
\* releases it when the block is left, by a return too; the exit for a
\* bytestream frame of size 0 unlocks by hand before it returns
mpqemu_msg_recv_ops(m, io) ==
    <<"recv_lock", "recvmsg">>
    \o (IF io = "recvmsg_err" THEN <<>>
        ELSE IF m.num_fds > REMOTE_MAX_FDS THEN <<>>
        ELSE IF m.bytestream /\ m.size = 0 THEN <<"recv_unlock">>
        ELSE IF m.size > 0 THEN <<"read">>
        ELSE <<>>)
    \o <<"recv_unlock">>

\* number of operations op in a trace
Count(trace, op) == Cardinality({i \in 1 .. Len(trace) : trace[i] = op})

\* process_msg after the condition check: receive, check the id, dispatch.
\* (Unlocking a mutex that is not locked is undefined: the process dies in
\* qemu_mutex_unlock or mpqemu_msg_recv returns.)
process_msg(s0, m, rc, env) ==
    LET s == Traced([s0 EXCEPT !.out.rc = rc],
                    mpqemu_msg_recv_ops(m, s0.out.io))
    IN  IF Count(s.out.trace, "recv_unlock") > 1
        THEN {Aborted(s), Fatal(Reported(s))}
        ELSE IF rc < 0 THEN {Fatal(Reported(s))}
        ELSE IF m.id > MAX_REMOTE_DEVICES THEN {Fatal(Reported(s))}
        ELSE Dispatch(s, m, env)

\* mpqemu_link_finalize: the loop is told to quit and the control channel
\* is destroyed
mpqemu_link_finalize(l) ==
    [l EXCEPT !.loop_quit = TRUE,
              !.com = [sock_open |-> FALSE, locks |-> "destroyed"]]

\* the globals after a process_msg call that ended in r on message m
Finished(r, m) ==
    /\ pc' = CASE r.exit = "ok" -> "running"
               [] r.exit = "fatal" -> "torn_down"
               [] OTHER -> "aborted"
    /\ link' = IF r.exit = "fatal" THEN mpqemu_link_finalize(link) ELSE link
    /\ create_done' = r.create_done
    /\ notifiers_run' = r.notifiers_run
    /\ nr_devices' = r.nr_devices
    /\ remote_pci_devs' = r.devs
    /\ qdev' = r.qdev
    /\ as_mem' = r.as_mem
    /\ as_io' = r.as_io
    /\ nframes' = nframes + 1
    /\ msg' = m
    /\ out' = r.out

\* a process_msg call on the control channel fed frame by frame
Apply(r, m) ==
    /\ Finished(r, m)
    /\ UNCHANGED <<waitvars, linkvars>>

\* outcomes of the external primitives called while handling command c
Envs(c) ==
    [sysmem_ok : IF c = "SYNC_SYSMEM" THEN BOOLEAN ELSE {TRUE},
     chan_ok : IF c \in {"START_MIG_OUT", "START_MIG_IN"} THEN BOOLEAN
               ELSE {TRUE},
     load_ok : IF c = "START_MIG_IN" THEN BOOLEAN ELSE {TRUE}]

\* process_msg on a readable control channel whose next frame carries
\* command c
Step(c) ==
    \E fm \in FramesOf[c], env \in Envs(c) :
       \E io \in (IF fm[1] # ReadFailFrame(c) THEN {"ok"}
                  ELSE IF fm[1].size > 0
                       THEN {"ok", "hdr_short", "read_err", "read_eof"}
                  ELSE {"ok", "hdr_short"}) :
          LET rc == mpqemu_msg_recv_rc(fm[1], io)
              m == IF io = "ok" THEN fm[2]
                   ELSE mpqemu_msg_recv_msg(Delivered(fm[1], io))
          IN  \E r \in process_msg(Received(Cur, io), m, rc, env) :
                 Apply(r, m)

\* the event loop dispatches while the link is up (and, in the model,
\* while the proxy has frames left to send)
Dispatching == pc = "running" /\ nframes < MaxFrames

OnInit ==
    /\ Dispatching
    /\ Step("INIT")

OnGetPciInfo ==
    /\ Dispatching
    /\ Step("GET_PCI_INFO")

OnPciConfigWrite ==
    /\ Dispatching
    /\ Step("PCI_CONFIG_WRITE")

OnPciConfigRead ==
    /\ Dispatching
    /\ Step("PCI_CONFIG_READ")

OnBarWrite ==
    /\ Dispatching
    /\ Step("BAR_WRITE")

OnBarRead ==
    /\ Dispatching
    /\ Step("BAR_READ")

OnSyncSysmem ==
    /\ Dispatching
    /\ Step("SYNC_SYSMEM")

OnSetIrqfd ==
    /\ Dispatching
    /\ Step("SET_IRQFD")

OnDevOpts ==
    /\ Dispatching
    /\ Step("DEV_OPTS")

OnDeviceAdd ==
    /\ Dispatching
    /\ Step("DEVICE_ADD")

OnDeviceDel ==
    /\ Dispatching
    /\ Step("DEVICE_DEL")

OnDeviceReset ==
    /\ Dispatching
    /\ Step("DEVICE_RESET")

OnRemotePing ==
    /\ Dispatching
    /\ Step("REMOTE_PING")

OnStartMigOut ==
    /\ Dispatching
    /\ Step("START_MIG_OUT")

OnStartMigIn ==
    /\ Dispatching
    /\ Step("START_MIG_IN")

OnRunstateSet ==
    /\ Dispatching
    /\ Step("RUNSTATE_SET")

\* commands the switch has no case for
OnOtherCmd ==
    /\ Dispatching
    /\ \E c \in {"RET_PCI_INFO", "MMIO_RETURN", UnknownCmd} : Step(c)

\* process_msg when the socket delivers nothing of the next frame
NothingDelivered(io) ==
    LET m == mpqemu_msg_recv_msg(Delivered(NoMsg, io))
    IN  \E r \in process_msg(Received(Cur, io), m,
                             mpqemu_msg_recv_rc(NoMsg, io),
                             CHOOSE e \in Envs("none") : TRUE) :
           Apply(r, m)

\* recvmsg fails: nothing was read into the zeroed message
OnRecvmsgError ==
    /\ Dispatching
    /\ NothingDelivered("recvmsg_err")

\* recvmsg returns 0: the peer has shut the stream down
OnEndOfStream ==
    /\ Dispatching
    /\ NothingDelivered("hdr_eof")

\* the channel reports G_IO_HUP or G_IO_ERR: no message is allocated
OnHangupOrError ==
    /\ Dispatching
    /\ Apply(Fatal(Received(Cur, "hup")), mpqemu_msg_recv_msg(NoMsg))

Next ==
    \/ OnInit
    \/ OnGetPciInfo
    \/ OnPciConfigWrite
    \/ OnPciConfigRead
    \/ OnBarWrite
    \/ OnBarRead
    \/ OnSyncSysmem
    \/ OnSetIrqfd
    \/ OnDevOpts
    \/ OnDeviceAdd
    \/ OnDeviceDel
    \/ OnDeviceReset
    \/ OnRemotePing
    \/ OnStartMigOut
    \/ OnStartMigIn
    \/ OnRunstateSet
    \/ OnOtherCmd
    \/ OnRecvmsgError
    \/ OnEndOfStream
    \/ OnHangupOrError

Spec == Init /\ [][Next]_vars

(***************************************************************************)
(* Properties of the dispatcher.                                           *)
(***************************************************************************)
\* a process_msg call has run and msg is the message it received
Processed == nframes > 0 /\ msg.cmd # "none"

\* the message passed the checks process_msg makes before its switch
Accepted == Processed /\ out.rc >= 0 /\ msg.id <= MAX_REMOTE_DEVICES

\* the FDs that were received with the message
ReceivedFds == {msg.fds[i] : i \in 1 .. msg.num_fds}

\* C2: no handler is ever invoked on a frame that the validity check
\* mpqemu_msg_valid would reject (wrong per-command size, not a bytestream
\* where one is required, ...): the dispatcher rejects it first.
C2_NoHandlerOnInvalidFrame ==
    (Processed /\ out.handler # "none") => mpqemu_msg_valid(msg)

\* the number of FDs of the message does not match its command's contract
FdCountMismatch ==
    \/ /\ msg.cmd \in {"REMOTE_PING", "PCI_CONFIG_READ", "DEVICE_ADD",
                       "DEVICE_DEL", "RUNSTATE_SET"}
       /\ msg.num_fds = 0
    \/ /\ msg.cmd = "START_MIG_OUT"
       /\ msg.num_fds < 2

\* C3: a frame whose number of FDs does not match its command's contract
\* is a fatal protocol error: the link is torn down, and no notification is
\* written to an FD that was not received with that frame.
C3_FdMismatchFatal ==
    (Accepted /\ FdCountMismatch) =>
        /\ pc = "torn_down"
        /\ \A i \in 1 .. Len(out.notifs) : out.notifs[i].fd \in ReceivedFds

\* the last call ran into a device error: setup_device took its
\* device_failed exit (malformed JSON, not an object, creation failed), a
\* DEVICE_ADD / DEVICE_DEL failed, or a BAR access got a MEMTX error
DeviceError ==
    /\ Accepted
    /\ \/ /\ out.handler = "setup_device"
          /\ \E i \in 1 .. Len(out.notifs) :
                out.notifs[i].val = NotifyValue(REMOTE_FAIL)
       \/ /\ out.handler \in {"process_device_add_msg",
                              "process_device_del_msg"}
          /\ out.err
       \/ /\ out.handler \in {"process_bar_read", "process_bar_write"}
          /\ ~MemtxOk(msg.bar.addr, msg.bar.size)

\* C4: device errors do not terminate the link: after a DEV_OPTS with
\* malformed JSON or a failed device creation (notified as REMOTE_FAIL), a
\* failed DEVICE_ADD / DEVICE_DEL or a MEMTX failure of a BAR access, the
\* link is still up.
C4_DeviceErrorsKeepLink == DeviceError => pc = "running"

\* C5: every DEV_OPTS frame that reaches its handler with exactly one FD
\* produces exactly one notification, on that FD, with REMOTE_OK if and
\* only if the device was created (a PCI device being stored at
\* devices[msg.id]) and REMOTE_FAIL otherwise.
C5_DevOptsNotifiesOnce ==
    (Accepted /\ out.handler = "setup_device" /\ msg.num_fds = 1) =>
        /\ Len(out.notifs) = 1
        /\ out.notifs[1].fd = msg.fds[1]
        /\ out.notifs[1].val =
              NotifyValue(IF out.created # NoKey THEN REMOTE_OK
                          ELSE REMOTE_FAIL)
        /\ (out.created # NoKey /\ qdev[out.created].pci) =>
              /\ msg.id < nr_devices
              /\ remote_pci_devs[msg.id + 1] = out.created

\* C6: every PCI_CONFIG_READ frame that is processed without tearing the
\* link down results in exactly one notification on the frame's wait-FD,
\* carrying the value the config-read primitive returns for the device.
C6_ConfigReadNotifiesOnce ==
    (Accepted /\ msg.cmd = "PCI_CONFIG_READ" /\ pc = "running") =>
        /\ msg.num_fds >= 1
        /\ Len(out.notifs) = 1
        /\ out.notifs[1].fd = msg.fds[1]
        /\ msg.id < nr_devices
        /\ remote_pci_devs[msg.id + 1] \in DevKeys
        /\ out.notifs[1].val =
              NotifyValue(U64(ConfigRead(qdev[remote_pci_devs[msg.id + 1]].cfg,
                                         msg.conf)))

\* the cell of the address space a BAR access selects
BarCell == IF msg.bar.memory THEN as_mem ELSE as_io

\* C7: every BAR_READ frame handled after machine creation is done
\* produces exactly one MMIO_RETURN frame, on the mmio channel, whatever
\* the size field of the request: the bus read masked to the low 8*size
\* bits for size 1, 2, 4, and 2^64-1 on a MEMTX failure.
C7_BarReadReplies ==
    (Accepted /\ out.handler = "process_bar_read") =>
        /\ Len(out.sent) = 1
        /\ out.sent[1].chan = "mmio"
        /\ out.sent[1].cmd = "MMIO_RETURN"
        /\ ~MemtxOk(msg.bar.addr, msg.bar.size) =>
              out.sent[1].val = UINT64_MAX
        /\ (MemtxOk(msg.bar.addr, msg.bar.size) /\ msg.bar.size \in {1, 2, 4})
              => out.sent[1].val = LowBytes(BarCell, msg.bar.size)

\* C8: the creation latch is a one-shot monotonic boolean: false at first,
\* raised by (and only by) a SET_IRQFD frame that is processed, never
\* lowered, and the machine-init-done notifiers have run exactly once when
\* it is raised and not at all before, however many SET_IRQFD frames follow.
C8_CreationLatch ==
    /\ create_done = FALSE
    /\ [](notifiers_run = IF create_done THEN 1 ELSE 0)
    /\ [][/\ create_done => create_done'
          /\ create_done' # create_done => msg'.cmd = "SET_IRQFD"
          /\ (nframes' # nframes /\ msg'.cmd = "SET_IRQFD"
                /\ pc' = "running") => create_done']_vars

\* two SET_IRQFD frames were processed, for two devices, the second one
\* with the latch already raised
C8_Witness ==
    /\ Accepted
    /\ msg.cmd = "SET_IRQFD"
    /\ pc = "running"
    /\ \A k \in DevNames : qdev[k].present /\ qdev[k].irq
    /\ create_done
    /\ notifiers_run = 1

GuardedCmds == {"PCI_CONFIG_WRITE", "PCI_CONFIG_READ", "BAR_WRITE", "BAR_READ"}

\* C9: before the creation latch is raised, a PCI_CONFIG_WRITE,
\* PCI_CONFIG_READ, BAR_WRITE or BAR_READ frame that reaches the switch of
\* the dispatcher (received, id at most MAX_REMOTE_DEVICES) short-circuits:
\* registry, configuration spaces and address spaces are unchanged, no
\* frame is sent, no wait-FD is notified, and the link stays up.
C9_PreLatchShortCircuit ==
    [][(/\ nframes' # nframes
        /\ ~create_done
        /\ msg'.cmd \in GuardedCmds
        /\ out'.rc >= 0
        /\ msg'.id <= MAX_REMOTE_DEVICES)
       => /\ UNCHANGED <<nr_devices, remote_pci_devs, qdev, as_mem, as_io,
                         create_done, link>>
          /\ out'.notifs = <<>>
          /\ out'.sent = <<>>
          /\ out'.handler = "none"
          /\ pc' = "running"]_vars

\* a well-formed BAR_WRITE to an accessible address arrived while a device
\* existed and the latch was not raised, and left the cell as it was
C9_Witness ==
    /\ Accepted
    /\ ~create_done
    /\ msg.cmd = "BAR_WRITE"
    /\ msg.size = Data1Size
    /\ msg.bar.addr = BarOk
    /\ msg.bar.memory
    /\ \E k \in DevNames : qdev[k].present /\ qdev[k].pci
    /\ as_mem = CellInit
    /\ pc = "running"

\* the last call executed a configuration-space operation on a device
ConfigOpExecuted ==
    /\ Accepted
    /\ out.handler \in {"process_config_write", "process_config_read"}
    /\ pc = "running"
    /\ msg.data2
    /\ msg.id < nr_devices
    /\ remote_pci_devs[msg.id + 1] \in DevKeys

\* C10: the created state is per device: a configuration-space operation
\* addressed to device id d is executed only if a SET_IRQFD frame for that
\* device has been processed earlier.
C10_CreatedPerDevice ==
    ConfigOpExecuted => qdev[remote_pci_devs[msg.id + 1]].irq

\* the commands whose handling looks a device up by the frame's id
LookupCmds == {"GET_PCI_INFO", "PCI_CONFIG_READ", "PCI_CONFIG_WRITE",
               "SET_IRQFD"}

\* C11: registry lookup is bounds-checked in every handler that looks a
\* device up by frame id: for GET_PCI_INFO, PCI_CONFIG_READ,
\* PCI_CONFIG_WRITE and SET_IRQFD a frame with id > nr_devices is rejected
\* without reading remote_pci_devs[id].  (None of the four commands changes
\* nr_devices, so its value after the call is its value at the check.)
C11_LookupBoundsChecked ==
    (Accepted /\ msg.cmd \in LookupCmds /\ msg.id > nr_devices) =>
        out.lookups = {}

\* the step is a process_msg call in which DEV_OPTS created a PCI device
PciDeviceAdded ==
    /\ nframes' # nframes
    /\ msg'.cmd = "DEV_OPTS"
    /\ out'.created # NoKey
    /\ qdev'[out'.created].pci

\* C12: a successful DEV_OPTS for a PCI device with id i leaves
\* nr_devices = max(previous nr_devices, i + 1) and the new device in
\* remote_pci_devs[i]; every slot that existed before and is not i is
\* unchanged and every newly created slot other than i is empty; and
\* nr_devices never decreases over any sequence of frames.
C12_RegistryAdd ==
    [][/\ nr_devices' >= nr_devices
       /\ PciDeviceAdded =>
            /\ nr_devices' = (IF nr_devices > msg'.id THEN nr_devices
                              ELSE msg'.id + 1)
            /\ Len(remote_pci_devs') = nr_devices'
            /\ remote_pci_devs'[msg'.id + 1] = out'.created
            /\ \A i \in 1 .. nr_devices :
                  i # msg'.id + 1 => remote_pci_devs'[i] = remote_pci_devs[i]
            /\ \A i \in (nr_devices + 1) .. nr_devices' :
                  i # msg'.id + 1 => remote_pci_devs'[i] = NullDev]_vars

\* C13: after a DEVICE_DEL frame has unplugged a device, the registry slot
\* that held the device is empty: no slot is left pointing to the removed
\* device, so no later lookup through remote_pci_devs[id] can reach it.
C13_DeletedSlotEmpty ==
    /\ \A i \in 1 .. nr_devices : remote_pci_devs[i] # Dangling
    /\ \A i \in out.lookups :
          i < nr_devices => remote_pci_devs[i + 1] # Dangling

\* the socket did not deliver the whole frame to the last process_msg
\* call: recvmsg or read failed, hit the end of the stream, or returned
\* fewer bytes than the header or the payload has
TransportError ==
    /\ nframes > 0
    /\ out.io \in {"recvmsg_err", "hdr_eof", "hdr_short", "read_err",
                   "read_eof"}

\* C15: transport errors are fatal: a failed recvmsg / read, an end of
\* stream (0 bytes read) or a short read of the header or of the payload
\* makes the dispatcher tear the link down without invoking any command
\* handler on the partially received frame.
C15_TransportErrorsFatal ==
    TransportError => (pc = "torn_down" /\ out.handler = "none")

\* C16: link teardown releases every channel: once the link is torn down
\* (hangup, error condition or fatal dispatch error) both the control
\* channel and the mmio channel have their sockets closed and their send-
\* and recv-locks destroyed, and the event loop has been told to quit.
C16_TeardownReleasesChannels ==
    pc = "torn_down" =>
        /\ link.loop_quit
        /\ ~link.com.sock_open
        /\ link.com.locks = "destroyed"
        /\ ~link.mmio.sock_open
        /\ link.mmio.locks = "destroyed"

\* the last process_msg call received a message and has freed it
FrameFreed == Processed /\ out.rc >= 0 /\ pc \in {"running", "torn_down"}

\* C17: FD conservation on the receiver: by the time a frame is freed, on
\* the normal path or on the teardown path, every FD received with it has
\* been consumed by the handler (installed on a device or handed to the
\* memory subsystem, or handed to migration / notified on and then
\* released) or closed; no freed frame leaves an open FD nobody owns.
C17_FdConservation ==
    FrameFreed => ReceivedFds \subseteq (out.closed \cup out.installed)

MaxSends == 2

\* the descriptor of the i-th FD of a frame in the sending process
SendFd(i) == 2 + i

\* the open file a descriptor of the sending process refers to
SenderFile(fd) == fd - 2

\* the open file a descriptor received by the remote refers to:
\* SCM_RIGHTS installs the i-th passed file as the i-th new descriptor
ReceiverFile(fd) == fd - 10

\* the frames the threads send
LinkFrames ==
    {MkFrame(Header("INIT", 0, 0, FALSE, 0), TypicalBody("INIT")),
     MkFrame(Header("INIT", 0, 0, FALSE, REMOTE_MAX_FDS + 1),
             TypicalBody("INIT")),
     MkFrame(Header("REMOTE_PING", 0, 0, FALSE, 1),
             TypicalBody("REMOTE_PING")),
     MkFrame(Header("GET_PCI_INFO", 0, 0, FALSE, 0),
             TypicalBody("GET_PCI_INFO")),
     MkFrame(Header("DEV_OPTS", 0, ConfDataSize, TRUE, 1),
             TypicalBody("DEV_OPTS")),
     MkFrame(Header("DEVICE_ADD", 0, 0, TRUE, 1), ZeroBody),
     MkFrame(Header("BAR_WRITE", 0, Data1Size, FALSE, 0),
             TypicalBody("BAR_WRITE")),
     MkFrame(Header("SYNC_SYSMEM", 0, Data1Size, FALSE, REMOTE_MAX_FDS),
             TypicalBody("SYNC_SYSMEM"))}

\* what sendmsg puts on the socket: the header, the FDs as SCM_RIGHTS
HdrUnit(src, f) ==
    [kind |-> "hdr", src |-> src,
     hdr |-> Header(f.cmd, f.id, f.size, f.bytestream, f.num_fds),
     files |-> [i \in 1 .. f.num_fds |-> SenderFile(SendFd(i))],
     body |-> ZeroBody]

\* what write puts on the socket: msg->size bytes of data2 or of data1
PayUnit(src, f) ==
    [kind |-> "pay", src |-> src,
     hdr |-> Header(f.cmd, f.id, f.size, f.bytestream, f.num_fds),
     files |-> <<>>,
     body |-> [conf |-> f.conf, bar |-> f.bar, json |-> f.json,
               runstate |-> f.runstate]]

\* the send-lock is taken whether or not another thread holds it
SendLockFree_NoExclusion(l) == TRUE

\* WITH_QEMU_LOCK_GUARD(lock): the lock can be taken when nobody holds it
SendLockFree(l) == l = "free"

\* mpqemu_msg_send is called: a frame with too many FDs is dropped
BeginSend ==
    \E t \in Threads, f \in LinkFrames :
       /\ spc[t] = "idle"
       /\ nsends < MaxSends
       /\ nsends' = nsends + 1
       /\ sframe' = [sframe EXCEPT ![t] = [frame |-> f, src |-> nsends + 1]]
       /\ spc' = [spc EXCEPT ![t] = IF f.num_fds > REMOTE_MAX_FDS
                                    THEN "idle" ELSE "lock"]
       /\ UNCHANGED <<send_lock, stream, rpos, rpc, rbuf, rcvd, rlog, sfail,
                      waitvars, mainvars>>

AcquireSendLock ==
    \E t \in Threads :
       /\ spc[t] = "lock"
       /\ SendLockFree(send_lock)
       /\ send_lock' = t
       /\ spc' = [spc EXCEPT ![t] = "sendmsg"]
       /\ UNCHANGED <<sframe, nsends, stream, rpos, rpc, rbuf, rcvd, rlog,
                      sfail, waitvars, mainvars>>

\* sendmsg of the header; on an error the function returns, which
\* releases the lock
SendHeader ==
    \E t \in Threads, ok \in BOOLEAN :
       /\ spc[t] = "sendmsg"
       /\ IF ok
          THEN /\ stream' = Append(stream, HdrUnit(sframe[t].src,
                                                   sframe[t].frame))
               /\ spc' = [spc EXCEPT ![t] = "write"]
               /\ UNCHANGED <<send_lock, sfail>>
          ELSE /\ sfail' = sfail \cup {sframe[t].src}
               /\ send_lock' = "free"
               /\ spc' = [spc EXCEPT ![t] = "idle"]
               /\ UNCHANGED stream
       /\ UNCHANGED <<sframe, nsends, rpos, rpc, rbuf, rcvd, rlog, waitvars,
                      mainvars>>

\* write of the payload (its result is not looked at), end of the guarded
\* block
SendPayload ==
    \E t \in Threads, ok \in BOOLEAN :
       /\ spc[t] = "write"
       /\ stream' = IF ok /\ sframe[t].frame.size > 0
                    THEN Append(stream, PayUnit(sframe[t].src,
                                                sframe[t].frame))
                    ELSE stream
       /\ send_lock' = "free"
       /\ spc' = [spc EXCEPT ![t] = "idle"]
       /\ UNCHANGED <<sframe, nsends, rpos, rpc, rbuf, rcvd, rlog, sfail,
                      waitvars, mainvars>>

\* the loop runs a callback while the previous one has not returned
LoopIdle_Reentrant(p) == p # "desync"

\* g_main_loop_run: one thread dispatches the ready sources one callback
\* at a time
LoopIdle(p) == p = "poll"

\* the ordinal of the header at position i among the headers of the stream
HdrOrdinal(i) ==
    Cardinality({j \in 1 .. i : stream[j].kind = "hdr"})

LogEvent(e, k) == [ev |-> e, k |-> k, pending |-> Len(stream) - rpos]

\* the channel is readable: process_msg, mpqemu_msg_recv reads the header
\* and the FDs
RecvHeader ==
    /\ LoopIdle(rpc)
    /\ pc = "running"
    /\ rpos < Len(stream)
    /\ LET u == stream[rpos + 1]
       IN  /\ rpos' = rpos + 1
           /\ IF u.kind = "hdr"
              THEN /\ rbuf' = [frame |-> MkFrame([u.hdr EXCEPT
                                           !.num_fds = Len(u.files)],
                                                  ZeroBody),
                                files |-> u.files, k |-> HdrOrdinal(rpos + 1)]
                   /\ rpc' = IF u.hdr.size > 0
                                 /\ ~(Len(u.files) > REMOTE_MAX_FDS)
                             THEN "payload" ELSE "handle"
                   /\ rlog' = Append(rlog, LogEvent("hdr",
                                                    HdrOrdinal(rpos + 1)))
              ELSE /\ rpc' = "desync"
                   /\ UNCHANGED <<rbuf, rlog>>
    /\ UNCHANGED <<send_lock, spc, sframe, nsends, stream, rcvd, sfail,
                   waitvars, mainvars>>

\* mpqemu_msg_recv reads msg->size bytes of payload
RecvPayload ==
    /\ rpc = "payload"
    /\ rpos < Len(stream)
    /\ LET u == stream[rpos + 1]
       IN  /\ rpos' = rpos + 1
           /\ IF u.kind = "pay" /\ u.hdr.size = rbuf.frame.size
              THEN /\ rbuf' = [rbuf EXCEPT
                                 !.frame = MkFrame([cmd |-> @.cmd,
                                     id |-> @.id, size |-> @.size,
                                     bytestream |-> @.bytestream,
                                     num_fds |-> @.num_fds], u.body)]
                   /\ rpc' = "handle"
              ELSE /\ rpc' = "desync"
                   /\ UNCHANGED rbuf
    /\ UNCHANGED <<send_lock, spc, sframe, nsends, stream, rcvd, rlog, sfail,
                   waitvars, mainvars>>

\* the events of a finished process_msg call: one per notification and
\* reply frame, then its return
Emitted(r, k) ==
    [i \in 1 .. (Len(r.out.notifs) + Len(r.out.sent)) |-> LogEvent("emit", k)]
    \o <<LogEvent("done", k)>>

\* mpqemu_msg_recv returns and process_msg handles the message
HandleFrame ==
    /\ rpc = "handle"
    /\ LET m == mpqemu_msg_recv_msg(rbuf.frame)
           rc == mpqemu_msg_recv_rc(rbuf.frame, "ok")
       IN  \E env \in Envs(m.cmd) :
              \E r \in process_msg(Received(Cur, "ok"), m, rc, env) :
                 /\ Finished(r, m)
                 /\ rcvd' = Append(rcvd, [msg |-> m, rc |-> rc,
                                          files |-> rbuf.files])
                 /\ rlog' = rlog \o Emitted(r, rbuf.k)
    /\ rpc' = "poll"
    /\ UNCHANGED <<send_lock, spc, sframe, nsends, stream, rpos, rbuf, sfail,
                   waitvars>>

NextLink ==
    \/ BeginSend
    \/ AcquireSendLock
    \/ SendHeader
    \/ SendPayload
    \/ RecvHeader
    \/ RecvPayload
    \/ HandleFrame

SpecLink == Init /\ [][NextLink]_vars

(***************************************************************************)
(* Properties of the channel.                                              *)
(***************************************************************************)
\* the position in the stream of the n-th header
HdrPos(n) ==
    CHOOSE i \in 1 .. Len(stream) :
        stream[i].kind = "hdr" /\ HdrOrdinal(i) = n

\* the frame whose header is at position i was put on the channel whole
SentWhole(i) ==
    \/ stream[i].hdr.size = 0
    \/ /\ i < Len(stream)
       /\ stream[i + 1].kind = "pay"
       /\ stream[i + 1].src = stream[i].src

\* message r.msg, returned by mpqemu_msg_recv with r.rc, is the frame
\* whose header is at position i of the stream (descriptors being compared
\* by the open files they refer to)
SameFrame(r, i) ==
    LET h == stream[i].hdr
        b == stream[i + 1].body
        m == r.msg
    IN  /\ r.rc >= 0
        /\ m.cmd = h.cmd
        /\ m.id = h.id
        /\ m.size = h.size
        /\ m.bytestream = h.bytestream
        /\ m.num_fds = h.num_fds
        /\ \A j \in 1 .. h.num_fds :
              ReceiverFile(m.fds[j]) = stream[i].files[j]
        /\ (h.size > 0 /\ h.bytestream) =>
              (m.data2 /\ m.conf = b.conf /\ m.json = b.json)
        /\ (h.size = Data1Size /\ ~h.bytestream) =>
              (m.bar = b.bar /\ m.runstate = b.runstate)

\* C14: codec round trip: every frame with cmd in the enumeration, num_fds
\* in 0 .. REMOTE_MAX_FDS and a bytestream payload of any size (size 0
\* included) or an inline payload, once mpqemu_msg_send has put it on the
\* channel, is returned by mpqemu_msg_recv with success and with the same
\* cmd, id, size, bytestream flag, num_fds, fds and payload bytes; and
\* frames sent back to back are received as the same frames in the same
\* order (the n-th message received is the n-th frame of the stream).
C14_CodecRoundTrip ==
    \A n \in 1 .. Len(rcvd) :
       SentWhole(HdrPos(n)) => SameFrame(rcvd[n], HdrPos(n))

\* C19: per channel, frames are processed strictly in arrival order and
\* one at a time: the headers are read in the order of the stream, and the
\* handler of frame k, with every reply frame and wait-FD notification it
\* emits, has completed before the header of frame k+1 is read, so that
\* replies are emitted in request order.
C19_FifoOneAtATime ==
    /\ \A p, q \in 1 .. Len(rlog) : p < q => rlog[p].k <= rlog[q].k
    /\ \A q \in 1 .. Len(rlog) :
          rlog[q].ev = "hdr" =>
             /\ rlog[q].k =
                   1 + Cardinality({p \in 1 .. (q - 1) : rlog[p].ev = "hdr"})
             /\ rlog[q].k > 1 =>
                   \E p \in 1 .. (q - 1) :
                      rlog[p].ev = "done" /\ rlog[p].k = rlog[q].k - 1
    /\ \A p \in 1 .. Len(rlog) :
          rlog[p].ev = "emit" =>
             ~\E q \in 1 .. (p - 1) :
                 rlog[q].ev = "done" /\ rlog[q].k = rlog[p].k

\* two requests were handled, each with an emission, the second one being
\* on the channel already when the handler of the first one returned
C19_Witness ==
    /\ Len(rcvd) = 2
    /\ \E p \in 1 .. Len(rlog) :
          rlog[p].ev = "done" /\ rlog[p].k = 1 /\ rlog[p].pending > 0
    /\ \A k \in 1 .. 2 :
          \E p \in 1 .. Len(rlog) : rlog[p].ev = "emit" /\ rlog[p].k = k
    /\ rlog[Len(rlog)] = LogEvent("done", 2)

\* C20: concurrent sends on one channel serialize: in the byte stream the
\* payload of a frame comes immediately after the header of that same
\* frame, with no bytes of another frame in between, each frame being
\* written once; and if the write of a frame's header fails, its payload
\* is not written.
C20_SendsSerialize ==
    /\ \A i \in 1 .. Len(stream) :
          stream[i].kind = "pay" =>
             /\ i > 1
             /\ stream[i - 1].kind = "hdr"
             /\ stream[i - 1].src = stream[i].src
    /\ \A i, j \in 1 .. Len(stream) :
          (stream[i].src = stream[j].src /\ stream[i].kind = stream[j].kind)
             => i = j
    /\ \A i \in 1 .. Len(stream) : stream[i].src \notin sfail
    /\ \A u \in Threads :
          spc[u] = "write" => /\ send_lock = u
                              /\ Len(stream) > 0
                              /\ stream[Len(stream)] =
                                    HdrUnit(sframe[u].src, sframe[u].frame)

\* a thread has written the header of a frame with a payload and holds
\* the lock while the other thread is waiting for the lock with a frame
\* of its own
C20_Witness ==
    \E u, w \in Threads :
       /\ u # w
       /\ spc[u] = "write"
       /\ sframe[u].frame.size > 0
       /\ stream[Len(stream)].src = sframe[u].src
       /\ spc[w] = "lock"
       /\ sframe[w].frame.size > 0

(***************************************************************************)
(* Locks, validity of frames, memory safety and assertions.                *)
(***************************************************************************)
\* lock l ("iothread", "send", "recv") is held after the first i
\* operations of a trace
Held(trace, l, i) ==
    Count(SubSeq(trace, 1, i), l \o "_lock")
        > Count(SubSeq(trace, 1, i), l \o "_unlock")

\* the operations that send a frame, notify a wait-FD or receive a frame
ChannelOps == {"sendmsg", "write", "notify", "recvmsg", "read"}

\* C21: lock discipline of the dispatcher: at every point of a process_msg
\* call the I/O-thread lock is not held while a frame is sent, a wait-FD
\* is notified or a frame is received; it is released before the handler
\* that took it returns; and the send-lock and the recv-lock of a channel
\* are never held at the same time by the dispatching thread.
C21_LockDiscipline ==
    /\ \A i \in 1 .. Len(out.trace) :
          /\ out.trace[i] \in ChannelOps =>
                ~Held(out.trace, "iothread", i - 1)
          /\ ~(Held(out.trace, "send", i) /\ Held(out.trace, "recv", i))
    /\ pc # "aborted" => ~Held(out.trace, "iothread", Len(out.trace))

\* a PCI_CONFIG_READ was received, read the register of its device under
\* the I/O-thread lock and notified the wait-FD after releasing the lock
C21_Witness ==
    /\ Accepted
    /\ msg.cmd = "PCI_CONFIG_READ"
    /\ pc = "running"
    /\ Len(out.notifs) = 1
    /\ out.trace = <<"recv_lock", "recvmsg", "read", "recv_unlock",
                     "iothread_lock", "pci_config", "iothread_unlock",
                     "notify">>

\* the last process_msg call has called mpqemu_msg_recv
RecvCalled == nframes > 0 /\ out.io # "hup"

\* C24: the recv-lock is balanced on every exit path of mpqemu_msg_recv:
\* acquired once on entry and released exactly once before the function
\* returns, on success and on every error path (recvmsg failure, more
\* than REMOTE_MAX_FDS FDs, bytestream frame of size 0); never released
\* twice, never left held.
C24_RecvLockBalanced ==
    RecvCalled =>
        /\ Count(out.trace, "recv_lock") = 1
        /\ Count(out.trace, "recv_unlock") = 1

\* C23: registry memory safety: whenever a handler reads
\* remote_pci_devs[id] (GET_PCI_INFO, PCI_CONFIG_READ, PCI_CONFIG_WRITE,
\* SET_IRQFD), id < nr_devices and the slot holds a device that a
\* successful DEV_OPTS stored there, also when id = nr_devices, when the
\* registry is still empty and for slots created by growth.
C23_RegistryMemorySafety ==
    \A i \in out.lookups :
        /\ i < nr_devices
        /\ remote_pci_devs[i + 1] \in DevKeys
        /\ qdev[remote_pci_devs[i + 1]].present

\* the last call ran a handler that asserts on what the proxy sent: the
\* JSON handlers on a payload that is there, BAR_READ on its size field
AssertingHandlerRan ==
    /\ Accepted
    /\ \/ /\ out.handler \in {"process_device_add_msg",
                               "process_device_del_msg", "setup_device"}
          /\ msg.data2
       \/ out.handler = "process_bar_read"

\* C25: no frame received from the proxy makes an assertion in a handler
\* fail: for every DEVICE_ADD, DEVICE_DEL and DEV_OPTS payload (JSON that
\* is not an object, an object without an id, an object with at most one
\* key) and every BAR_READ size the handler returns normally.
C25_NoAssertionFailure == AssertingHandlerRan => pc # "aborted"

\* a message has the shape the validity check asks for, its FDs aside:
\* cmd in the enumeration, bytestream and data2 consistent, the size (and
\* for SYNC_SYSMEM the inline payload with at least one FD) of its command
WellShaped(m) ==
    /\ CmdOrdinal(m.cmd) < MAX
    /\ m.bytestream = m.data2
    /\ m.cmd = "SYNC_SYSMEM" => (m.num_fds > 0 /\ ~m.bytestream)
    /\ m.cmd \in {"SYNC_SYSMEM", "BAR_WRITE", "BAR_READ", "SET_IRQFD"} =>
          m.size = Data1Size
    /\ m.cmd \in {"PCI_CONFIG_WRITE", "PCI_CONFIG_READ"} =>
          m.size = ConfDataSize

\* C22: mpqemu_msg_valid accepts the whole FD range the codec can carry: a
\* well-shaped message with num_fds open FDs (the FDs mpqemu_msg_recv
\* returned) is valid for every num_fds in 0 .. REMOTE_MAX_FDS, exactly
\* REMOTE_MAX_FDS included.
C22_ValidAcceptsFdRange ==
    \A n \in 1 .. Len(rcvd) :
       (/\ rcvd[n].rc >= 0
        /\ WellShaped(rcvd[n].msg)
        /\ rcvd[n].msg.num_fds <= REMOTE_MAX_FDS)
          => mpqemu_msg_valid(rcvd[n].msg)

====
